---- MODULE Spec2Model ----
(***************************************************************************)
(* A model of the search-and-evaluation engine of the chess engine:        *)
(*   - get_pos_evaluation / get_evaluation (src/src/engine.rs:87-136),     *)
(*   - alpha_beta_search                   (src/src/engine.rs:142-199),    *)
(*   - play_game_against_self              (src/src/engine.rs:208-229).    *)
(* The board module and the move generator (generate_moves, is_check) are  *)
(* not part of the sources at hand; they are modelled from the written     *)
(* specification as an abstract finite game (variable game).               *)
(***************************************************************************)
EXTENDS Integers, Sequences, FiniteSets, TLC

VARIABLES
    game,        \* the move generator's world: what generate_moves / is_check answer
    board,       \* play_game_against_self: `board`, the current Position
    depth,       \* play_game_against_self: argument `depth` (u8)
    max_moves,   \* play_game_against_self: argument `max_moves` (u8)
    pc,          \* where the run stands: the driver at "loop" or "done"; a single
                 \* search at "search" or "searched"; an evaluation at "eval" or
                 \* "evaluated"
    last,        \* the last search: the Position searched and what the search returned
    start,       \* the Position the driver was started on
    evaluation   \* result of the last get_evaluation applied by Evaluate

vars == <<game, board, depth, max_moves, pc, last, start, evaluation>>

----------------------------------------------------------------------------
(* Bounds of the model *)

\* number of distinct position classes of the abstract game
NumCfg == 3
\* largest number of successors generate_moves returns
MaxBranch == 2
\* largest search depth given to the driver
MaxDepth == 4
\* largest cap on the full-move clock given to the driver
MaxCap == 3
\* largest number of pieces on a Position whose evaluation is checked
MaxPieces == 1

----------------------------------------------------------------------------
(* Program constants *)

I32_MIN == -2147483647 - 1
I32_MAX == 2147483647
MATE_BASE == 99999999
\* the grid has a sentinel margin of two cells: the playable squares are
\* BOARD_START .. BOARD_END - 1 in both directions
BOARD_START == 2
BOARD_END == 10
\* full_move_clock above which the king uses the late-game table
LATE_GAME_CLOCK == 30

White == "White"
Black == "Black"
PieceColor == {White, Black}
PieceKind == {"Pawn", "Rook", "Bishop", "Knight", "King", "Queen"}
\* Option<T>: None is the empty sequence, Some(x) the sequence of x alone.
None == <<>>
Some(x) == <<x>>
Unwrap(o) == o[1]

PAWN_WEIGHTS == <<
    <<0, 0, 0, 0, 0, 0, 0, 0>>,
    <<50, 50, 50, 50, 50, 50, 50, 50>>,
    <<10, 10, 20, 30, 30, 20, 10, 10>>,
    <<5, 5, 10, 25, 25, 10, 5, 5>>,
    <<0, 0, 0, 20, 20, 0, 0, 0>>,
    <<5, -5, -10, 0, 0, -10, -5, 5>>,
    <<5, 10, 10, -20, -20, 10, 10, 5>>,
    <<0, 0, 0, 0, 0, 0, 0, 0>> >>

KNIGHT_WEIGHTS == <<
    <<-50, -40, -30, -30, -30, -30, -40, -50>>,
    <<-40, -20, 0, 0, 0, 0, -20, -40>>,
    <<-30, 0, 10, 15, 15, 10, 0, -30>>,
    <<-30, 5, 15, 20, 20, 15, 5, -30>>,
    <<-30, 0, 15, 20, 20, 15, 0, -30>>,
    <<-30, 5, 10, 15, 15, 10, 5, -30>>,
    <<-40, -20, 0, 5, 5, 0, -20, -40>>,
    <<-50, -40, -30, -30, -30, -30, -40, -50>> >>

BISHOP_WEIGHTS == <<
    <<-20, -10, -10, -10, -10, -10, -10, -20>>,
    <<-10, 0, 0, 0, 0, 0, 0, -10>>,
    <<-10, 0, 5, 10, 10, 5, 0, -10>>,
    <<-10, 5, 5, 10, 10, 5, 5, -10>>,
    <<-10, 0, 10, 10, 10, 10, 0, -10>>,
    <<-10, 10, 10, 10, 10, 10, 10, -10>>,
    <<-10, 5, 0, 0, 0, 0, 5, -10>>,
    <<-20, -10, -10, -10, -10, -10, -10, -20>> >>

ROOK_WEIGHTS == <<
    <<0, 0, 0, 0, 0, 0, 0, 0>>,
    <<5, 10, 10, 10, 10, 10, 10, 5>>,
    <<-5, 0, 0, 0, 0, 0, 0, -5>>,
    <<-5, 0, 0, 0, 0, 0, 0, -5>>,
    <<-5, 0, 0, 0, 0, 0, 0, -5>>,
    <<-5, 0, 0, 0, 0, 0, 0, -5>>,
    <<-5, 0, 0, 0, 0, 0, 0, -5>>,
    <<0, 0, 0, 5, 5, 0, 0, 0>> >>

QUEEN_WEIGHTS == <<
    <<-20, -10, -10, -5, -5, -10, -10, -20>>,
    <<-10, 0, 0, 0, 0, 0, 0, -10>>,
    <<-10, 0, 5, 5, 5, 5, 0, -10>>,
    <<-5, 0, 5, 5, 5, 5, 0, -5>>,
    <<0, 0, 5, 5, 5, 5, 0, -5>>,
    <<-10, 5, 5, 5, 5, 5, 0, -10>>,
    <<-10, 0, 5, 0, 0, 0, 0, -10>>,
    <<-20, -10, -10, -5, -5, -10, -10, -20>> >>

KING_WEIGHTS == <<
    <<-30, -40, -40, -50, -50, -40, -40, -30>>,
    <<-30, -40, -40, -50, -50, -40, -40, -30>>,
    <<-30, -40, -40, -50, -50, -40, -40, -30>>,
    <<-30, -40, -40, -50, -50, -40, -40, -30>>,
    <<-20, -30, -30, -40, -40, -30, -30, -20>>,
    <<-10, -20, -20, -20, -20, -20, -20, -10>>,
    <<20, 20, 0, 0, 0, 0, 20, 20>>,
    <<20, 30, 10, 0, 0, 10, 30, 20>> >>

KING_LATE_GAME == <<
    <<-50, -40, -30, -20, -20, -30, -40, -50>>,
    <<-30, -20, -10, 0, 0, -10, -20, -30>>,
    <<-30, -10, 20, 30, 30, 20, -10, -30>>,
    <<-30, -10, 30, 40, 40, 30, -10, -30>>,
    <<-30, -10, 30, 40, 40, 30, -10, -30>>,
    <<-30, -10, 20, 30, 30, 20, -10, -30>>,
    <<-30, -30, 0, 0, 0, 0, -30, -30>>,
    <<-50, -30, -30, -30, -30, -30, -30, -50>> >>

----------------------------------------------------------------------------
(* The Position (BoardState) *)

\* The playable squares of the grid.
PlayableRange == BOARD_START .. (BOARD_END - 1)

Squares == PlayableRange \X PlayableRange

\* Base value of a piece kind, the unit of the two cached material totals.
PieceValue(kind) ==
    CASE kind = "Pawn" -> 100
      [] kind = "Knight" -> 320
      [] kind = "Bishop" -> 330
      [] kind = "Rook" -> 500
      [] kind = "Queen" -> 900
      [] kind = "King" -> 20000

RECURSIVE SumValues(_, _)
\* Sum of the base values of the pieces of `color` standing on the squares sqs.
SumValues(grid, sqs) ==
    IF sqs = {} THEN 0
    ELSE LET s == CHOOSE x \in sqs : TRUE
         IN PieceValue(grid[s].kind) + SumValues(grid, sqs \ {s})

\* board.white_total_piece_value / black_total_piece_value of a grid: the sum
\* of the base values of that colour's pieces.
TotalPieceValue(grid, color) ==
    SumValues(grid, {s \in DOMAIN grid : grid[s].color = color})

\* A BoardState. `board` maps every occupied playable square <<row, col>> to its
\* piece (Square::Full); every other playable square is Square::Empty. `id`
\* stands for what else the move generator reads of a BoardState.
BoardState(id, grid, to_move, clock) ==
    [id |-> id,
     board |-> grid,
     to_move |-> to_move,
     full_move_clock |-> clock,
     white_total_piece_value |-> TotalPieceValue(grid, White),
     black_total_piece_value |-> TotalPieceValue(grid, Black)]

----------------------------------------------------------------------------
(* Evaluator *)

\* Mutant of TableRow: Black reads the tables unmirrored, as White does.
TableRowUnmirrored(row, color) == row - BOARD_START

\* Row of the weight tables a piece on grid row `row` reads (engine.rs:90-93).
TableRow(row, color) ==
    IF color = White THEN row - BOARD_START ELSE 9 - row

\* Column of the weight tables (engine.rs:89).
TableCol(col) == col - BOARD_START

\* King table chosen by the game phase (engine.rs:100-106).
KingTable(b) ==
    IF b.full_move_clock > LATE_GAME_CLOCK THEN KING_LATE_GAME ELSE KING_WEIGHTS

\* get_pos_evaluation: the positional weight of the piece on <<row, col>>.
\* Tables are 0-based in the source and 1-based here.
get_pos_evaluation(row, col, b, color) ==
    LET piece == b.board[<<row, col>>]
        c == TableCol(col)
        r == TableRow(row, color)
        table == CASE piece.kind = "Pawn" -> PAWN_WEIGHTS
                   [] piece.kind = "Rook" -> ROOK_WEIGHTS
                   [] piece.kind = "Bishop" -> BISHOP_WEIGHTS
                   [] piece.kind = "Knight" -> KNIGHT_WEIGHTS
                   [] piece.kind = "King" -> KingTable(b)
                   [] piece.kind = "Queen" -> QUEEN_WEIGHTS
    IN table[r + 1][c + 1]

\* One round of the double loop of get_evaluation: what square <<row, col>>
\* adds to the evaluation (engine.rs:124-132).
SquareEval(b, row, col) ==
    IF <<row, col>> \in DOMAIN b.board
    THEN LET color == b.board[<<row, col>>].color
             square_eval == get_pos_evaluation(row, col, b, color)
         IN IF color = White THEN square_eval ELSE -square_eval
    ELSE 0

RECURSIVE SumSquares(_, _)
SumSquares(b, sqs) ==
    IF sqs = {} THEN 0
    ELSE LET s == CHOOSE x \in sqs : TRUE
         IN SquareEval(b, s[1], s[2]) + SumSquares(b, sqs \ {s})

\* get_evaluation: material difference plus the positional terms of all
\* playable squares (the empty ones add nothing).
get_evaluation(b) ==
    (b.white_total_piece_value - b.black_total_piece_value)
        + SumSquares(b, DOMAIN b.board \cap Squares)

----------------------------------------------------------------------------
(* Move generator (external collaborator): an abstract finite game *)

Opponent(color) == IF color = White THEN Black ELSE White

\* The piece placements the positions of the game are drawn from: both kings,
\* alone or with one or two more pieces. The first and the last evaluate alike
\* before the late game.
SampleGrids == <<
    (<<9, 6>> :> [kind |-> "King", color |-> White])
        @@ (<<2, 6>> :> [kind |-> "King", color |-> Black]),
    (<<9, 8>> :> [kind |-> "King", color |-> White])
        @@ (<<2, 6>> :> [kind |-> "King", color |-> Black])
        @@ (<<5, 5>> :> [kind |-> "Pawn", color |-> White]),
    (<<9, 6>> :> [kind |-> "King", color |-> White])
        @@ (<<2, 6>> :> [kind |-> "King", color |-> Black])
        @@ (<<4, 4>> :> [kind |-> "Knight", color |-> Black]),
    (<<9, 6>> :> [kind |-> "King", color |-> White])
        @@ (<<2, 6>> :> [kind |-> "King", color |-> Black])
        @@ (<<8, 2>> :> [kind |-> "Pawn", color |-> White])
        @@ (<<3, 2>> :> [kind |-> "Pawn", color |-> Black]) >>

Cfg == 1 .. NumCfg

\* The games: for each position class, how many successors generate_moves
\* returns and, for a class without successors, whether the side to move is in
\* check; rot assigns the sample grids to the classes.
Games ==
    { [moves |-> m, check |-> c, rot |-> r] :
        m \in [Cfg -> 0 .. MaxBranch],
        c \in [Cfg -> BOOLEAN],
        r \in 0 .. (Len(SampleGrids) - 1) }

\* is_check is read only for positions without successors (engine.rs:155-163):
\* the flag is drawn for those alone.
WellFormedGame(g) == \A c \in Cfg : g.moves[c] > 0 => ~g.check[c]

GridOf(id) == SampleGrids[((id + game.rot) % Len(SampleGrids)) + 1]

\* The Position a move from b into class id produces: the other side is to
\* move, the full-move clock increments after Black moved, and the material
\* totals are those of the new grid.
Successor(b, id) ==
    BoardState(id, GridOf(id), Opponent(b.to_move),
               IF b.to_move = Black THEN b.full_move_clock + 1 ELSE b.full_move_clock)

\* generate_moves: the legal successors of b, in generation order.
generate_moves(b) ==
    [j \in 1 .. game.moves[b.id] |-> Successor(b, ((b.id - 1 + j) % NumCfg) + 1)]

\* is_check: only the side to move can be in check.
is_check(b, color) == color = b.to_move /\ game.check[b.id]

----------------------------------------------------------------------------
(* Search engine *)

Max(a, b) == IF a >= b THEN a ELSE b
Min(a, b) == IF a <= b THEN a ELSE b

\* piece_value_differential (engine.rs:201-203)
piece_value_differential(b) == b.white_total_piece_value - b.black_total_piece_value

RECURSIVE InsertSorted(_, _, _)
\* x placed into the sorted sequence s behind every element that does not
\* come after it in the order of sign * differential: the sort is stable, as
\* slice::sort_by is.
InsertSorted(s, x, sign) ==
    IF s = <<>> THEN <<x>>
    ELSE IF sign * piece_value_differential(x) < sign * piece_value_differential(Head(s))
         THEN <<x>> \o s
         ELSE <<Head(s)>> \o InsertSorted(Tail(s), x, sign)

RECURSIVE SortBy(_, _)
SortBy(s, sign) ==
    IF s = <<>> THEN <<>>
    ELSE InsertSorted(SortBy(SubSeq(s, 1, Len(s) - 1), sign), s[Len(s)], sign)

\* engine.rs:169: moves.sort_by(|a, b| differential(b).cmp(&differential(a)))
SortDescending(moves) == SortBy(moves, -1)

\* engine.rs:184: moves.sort_by(|a, b| differential(a).cmp(&differential(b)))
SortAscending(moves) == SortBy(moves, 1)

\* Mutant of TerminalScore: the signs of the two mate scores are exchanged.
TerminalScoreSwappedSigns(b, d, maximizing_player) ==
    IF maximizing_player = White
    THEN IF is_check(b, White) THEN MATE_BASE + d ELSE 0
    ELSE IF is_check(b, Black) THEN -MATE_BASE - d ELSE 0

\* Mutant of TerminalScore: is_check is not asked, every Position without
\* successors is scored as a checkmate.
TerminalScoreNoCheckTest(b, d, maximizing_player) ==
    IF maximizing_player = White THEN -MATE_BASE - d ELSE MATE_BASE + d

\* Mutant of TerminalScore: the depth is subtracted from the magnitude.
TerminalScoreMinusDepth(b, d, maximizing_player) ==
    IF maximizing_player = White
    THEN IF is_check(b, White) THEN -MATE_BASE + d ELSE 0
    ELSE IF is_check(b, Black) THEN MATE_BASE - d ELSE 0

\* Mutant of TerminalScore: the depth is left out of the mate score.
TerminalScoreNoDepth(b, d, maximizing_player) ==
    IF maximizing_player = White
    THEN IF is_check(b, White) THEN -MATE_BASE ELSE 0
    ELSE IF is_check(b, Black) THEN MATE_BASE ELSE 0

\* Score of a Position without successors (engine.rs:155-165).
TerminalScore(b, d, maximizing_player) ==
    IF maximizing_player = White
    THEN IF is_check(b, White) THEN -MATE_BASE - d ELSE 0
    ELSE IF is_check(b, Black) THEN MATE_BASE + d ELSE 0

\* Mutant of NextMaximizer: the recursive call keeps the maximizing player.
NextMaximizerSame(maximizing_player) == maximizing_player

\* The maximizing_player handed to the recursive calls (engine.rs:172, 187).
NextMaximizer(maximizing_player) ==
    IF maximizing_player = White THEN Black ELSE White

\* Mutant of CutOff: the comparison is turned around.
CutOffInverted(alpha, beta) == alpha <= beta

\* The cutoff test after each child (engine.rs:178, 193).
CutOff(alpha, beta) == beta <= alpha

\* Mutant of AtHorizon: the horizon is met one ply early.
AtHorizonEarly(d) == d <= 1

\* The test for the search horizon (engine.rs:149).
AtHorizon(d) == d = 0

\* What one call of alpha_beta_search returns, with the calls made below it.
SearchResult(best_move, score, calls) ==
    [best_move |-> best_move, score |-> score, calls |-> calls]

\* The record of one call of alpha_beta_search: its arguments and its result.
Call(b, d, alpha, beta, maximizing_player, best_move, score) ==
    [board |-> b, depth |-> d, alpha |-> alpha, beta |-> beta,
     maximizing_player |-> maximizing_player,
     none |-> (best_move = None), score |-> score]

RECURSIVE alpha_beta_search(_, _, _, _, _)
RECURSIVE MaxLoop(_, _, _, _, _, _, _, _)
RECURSIVE MinLoop(_, _, _, _, _, _, _, _)

\* The loop of the White branch from its i-th round on (engine.rs:171-182).
MaxLoop(moves, i, d, alpha, beta, best_val, best_move, calls) ==
    IF i > Len(moves) THEN SearchResult(best_move, best_val, calls)
    ELSE LET child == moves[i]
             ev == alpha_beta_search(child, d - 1, alpha, beta, NextMaximizer(White))
             better == ev.score > best_val
             bv == IF better THEN ev.score ELSE best_val
             bm == IF better THEN Some(child) ELSE best_move
             a == Max(alpha, ev.score)
             cs == calls \cup ev.calls
         IN IF CutOff(a, beta) THEN SearchResult(bm, bv, cs)
            ELSE MaxLoop(moves, i + 1, d, a, beta, bv, bm, cs)

\* The loop of the Black branch from its i-th round on (engine.rs:186-197).
MinLoop(moves, i, d, alpha, beta, best_val, best_move, calls) ==
    IF i > Len(moves) THEN SearchResult(best_move, best_val, calls)
    ELSE LET child == moves[i]
             ev == alpha_beta_search(child, d - 1, alpha, beta, NextMaximizer(Black))
             better == ev.score < best_val
             bv == IF better THEN ev.score ELSE best_val
             bm == IF better THEN Some(child) ELSE best_move
             bt == Min(beta, ev.score)
             cs == calls \cup ev.calls
         IN IF CutOff(alpha, bt) THEN SearchResult(bm, bv, cs)
            ELSE MinLoop(moves, i + 1, d, alpha, bt, bv, bm, cs)

\* alpha_beta_search (engine.rs:142-199). The result carries, beside the
\* successor and the score, the record of this call and of every call below.
alpha_beta_search(b, d, alpha, beta, maximizing_player) ==
    LET moves == generate_moves(b)
        r == IF AtHorizon(d) THEN SearchResult(None, get_evaluation(b), {})
             ELSE IF moves = <<>>
                  THEN SearchResult(None, TerminalScore(b, d, maximizing_player), {})
             ELSE IF maximizing_player = White
                  THEN MaxLoop(SortDescending(moves), 1, d, alpha, beta, I32_MIN, None, {})
                  ELSE MinLoop(SortAscending(moves), 1, d, alpha, beta, I32_MAX, None, {})
    IN SearchResult(r.best_move, r.score,
           r.calls \cup {Call(b, d, alpha, beta, maximizing_player, r.best_move, r.score)})

----------------------------------------------------------------------------
(* Self-play driver *)

\* Mutant of LoopGuard: the loop runs once more at the cap.
LoopGuardInclusive(b, cap) == b.full_move_clock <= cap

\* Mutant of LoopGuard: the loop runs until the clock equals the cap.
LoopGuardNotEqual(b, cap) == b.full_move_clock # cap

\* The loop condition of play_game_against_self (engine.rs:220).
LoopGuard(b, cap) == b.full_move_clock < cap

\* The search the driver runs each round (engine.rs:221).
DriverSearch(b, d) == alpha_beta_search(b, d, I32_MIN, I32_MAX, b.to_move)

NoSearch == [board |-> None, res |-> SearchResult(None, 0, {})]

\* The starting clocks: an ordinary one, and one beyond every cap.
StartClocks == {1, MaxCap + 1}

Init ==
    /\ game \in {g \in Games : WellFormedGame(g) /\ g.rot = 0}
    /\ \E to_move \in PieceColor, clock \in StartClocks :
          board = BoardState(1, GridOf(1), to_move, clock)
    /\ depth \in 0 .. MaxDepth
    /\ max_moves \in 0 .. MaxCap
    /\ pc = "loop"
    /\ last = NoSearch
    /\ start = board
    /\ evaluation = 0

\* One round of the loop (engine.rs:220-228): search; adopt the successor
\* returned, or leave the loop when none is returned.
Iterate ==
    /\ pc = "loop"
    /\ LoopGuard(board, max_moves)
    /\ LET res == DriverSearch(board, depth)
       IN /\ last' = [board |-> Some(board), res |-> res]
          /\ IF res.best_move # None
             THEN board' = Unwrap(res.best_move) /\ pc' = "loop"
             ELSE board' = board /\ pc' = "done"
    /\ UNCHANGED <<game, depth, max_moves, start, evaluation>>

\* The loop condition fails (engine.rs:220): the driver returns.
Exit ==
    /\ pc = "loop"
    /\ ~LoopGuard(board, max_moves)
    /\ pc' = "done"
    /\ UNCHANGED <<game, board, depth, max_moves, last, start, evaluation>>

Next == Iterate \/ Exit

Spec == Init /\ [][Next]_vars

----------------------------------------------------------------------------
(* The search applied once to a Position, as the driver applies it *)

\* The clocks of the Positions searched: an early one, and the last one before
\* the king's table changes.
SearchClocks == {1, LATE_GAME_CLOCK}

InitSearch ==
    /\ game \in {g \in Games : WellFormedGame(g)}
    /\ \E to_move \in PieceColor, clock \in SearchClocks :
          board = BoardState(1, GridOf(1), to_move, clock)
    /\ depth \in 0 .. MaxDepth
    /\ max_moves = 0
    /\ pc = "search"
    /\ last = NoSearch
    /\ start = board
    /\ evaluation = 0

\* alpha_beta_search applied with the driver's arguments (engine.rs:221).
Search ==
    /\ pc = "search"
    /\ last' = [board |-> Some(board), res |-> DriverSearch(board, depth)]
    /\ pc' = "searched"
    /\ UNCHANGED <<game, board, depth, max_moves, start, evaluation>>

NextSearch == Search

SpecSearch == InitSearch /\ [][NextSearch]_vars

----------------------------------------------------------------------------
(* get_evaluation applied to a Position *)

Pieces == [kind : PieceKind, color : PieceColor]

RECURSIVE SquareSets(_)
\* The sets of at most n playable squares.
SquareSets(n) ==
    IF n = 0 THEN {{}}
    ELSE LET smaller == SquareSets(n - 1)
         IN smaller \cup {S \cup {x} : S \in smaller, x \in Squares}

\* The grids with at most MaxPieces pieces, of any kind and colour, anywhere.
Grids == UNION {[D -> Pieces] : D \in SquareSets(MaxPieces)}

\* The clocks on either side of the change of the king's table.
EvalClocks == {LATE_GAME_CLOCK, LATE_GAME_CLOCK + 1}

InitEval ==
    /\ game = [moves |-> [c \in Cfg |-> 0], check |-> [c \in Cfg |-> FALSE], rot |-> 0]
    /\ \E grid \in Grids, clock \in EvalClocks :
          board = BoardState(1, grid, White, clock)
    /\ depth = 0
    /\ max_moves = 0
    /\ pc = "eval"
    /\ last = NoSearch
    /\ start = board
    /\ evaluation = 0

\* get_evaluation applied to the Position (engine.rs:119-136).
Evaluate ==
    /\ pc = "eval"
    /\ evaluation' = get_evaluation(board)
    /\ pc' = "evaluated"
    /\ UNCHANGED <<game, board, depth, max_moves, last, start>>

NextEval == Evaluate

SpecEval == InitEval /\ [][NextEval]_vars

----------------------------------------------------------------------------
(* Notions the properties are stated with *)

Abs(x) == IF x < 0 THEN -x ELSE x

Range(s) == {s[i] : i \in DOMAIN s}

SetMax(S) == CHOOSE x \in S : \A y \in S : y <= x
SetMin(S) == CHOOSE x \in S : \A y \in S : x <= y

\* b is a checkmate: no legal successor, and the side to move is in check.
IsCheckmate(b) == generate_moves(b) = <<>> /\ is_check(b, b.to_move)

\* b is a stalemate: no legal successor, and the side to move is not in check.
IsStalemate(b) == generate_moves(b) = <<>> /\ ~is_check(b, b.to_move)

RECURSIVE Minimax(_, _)
\* The score of the unpruned, unordered minimax search of b to depth d: White
\* maximizes, Black minimizes, the horizon is scored by get_evaluation, a
\* checkmate by the mate base plus the remaining depth, a stalemate by 0.
Minimax(b, d) ==
    IF d = 0 THEN get_evaluation(b)
    ELSE IF IsCheckmate(b)
         THEN IF b.to_move = White THEN -(MATE_BASE + d) ELSE MATE_BASE + d
    ELSE IF IsStalemate(b) THEN 0
    ELSE LET scores == {Minimax(c, d - 1) : c \in Range(generate_moves(b))}
         IN IF b.to_move = White THEN SetMax(scores) ELSE SetMin(scores)

RECURSIVE ForcedMate(_, _, _)
\* From b, `winner` can force the checkmate of the other side within k plies.
ForcedMate(b, winner, k) ==
    LET moves == Range(generate_moves(b))
    IN IF moves = {} THEN IsCheckmate(b) /\ b.to_move # winner
       ELSE /\ k > 0
            /\ IF b.to_move = winner
               THEN \E c \in moves : ForcedMate(c, winner, k - 1)
               ELSE \A c \in moves : ForcedMate(c, winner, k - 1)

\* The plies of the fastest forced mate of `winner` from b, when it takes at
\* most `horizon` plies; horizon + 1 when there is none within the horizon.
MateIn(b, winner, horizon) ==
    IF \E k \in 0 .. horizon : ForcedMate(b, winner, k)
    THEN CHOOSE k \in 0 .. horizon :
            ForcedMate(b, winner, k) /\ \A j \in 0 .. (k - 1) : ~ForcedMate(b, winner, j)
    ELSE horizon + 1

\* A search was applied and its result is at hand.
Searched == last.board # None

Root == Unwrap(last.board)

Calls == last.res.calls

\* The calls of the last search that met a checkmate above the horizon.
MateCalls == {c \in Calls : c.depth >= 1 /\ IsCheckmate(c.board)}

\* Some call of the last search left a successor unsearched: the search pruned.
Pruned ==
    \E c \in Calls :
        /\ c.depth >= 1
        /\ \E s \in Range(generate_moves(c.board)) :
              \A k \in Calls : ~(k.board = s /\ k.depth = c.depth - 1)

----------------------------------------------------------------------------
(* Properties *)

\* C1: with the widest window and the side to move as maximizing player,
\* alpha_beta_search returns the score of the unpruned minimax search of the
\* same tree: pruning and move ordering do not change the score.
C1_AlphaBetaEqualsMinimax ==
    Searched => last.res.score = Minimax(Root, depth)

\* C1 witness: a search of depth 3 or more that pruned, on a position with two successors
C1_Witness ==
    /\ Searched
    /\ depth >= 3
    /\ Len(generate_moves(Root)) >= 2
    /\ Pruned

\* C2 as stated: a call on a checkmate returns no successor and the mate score
\* of the remaining depth, for every remaining depth.
C2_MateScoreAtEveryDepth ==
    \A c \in Calls :
        IsCheckmate(c.board) =>
            /\ c.none
            /\ c.score = IF c.board.to_move = White
                         THEN -(MATE_BASE + c.depth) ELSE MATE_BASE + c.depth

\* C2 as amended: a call on a checkmate with remaining depth 1 or more returns
\* no successor and -(MATE_BASE + depth) when White is mated, MATE_BASE + depth
\* when Black is mated; at remaining depth 0 it returns no successor and the
\* static evaluation.
C2_MateScoreAboveHorizon ==
    \A c \in Calls :
        IsCheckmate(c.board) =>
            /\ c.none
            /\ c.score = IF c.depth = 0 THEN get_evaluation(c.board)
                         ELSE IF c.board.to_move = White
                              THEN -(MATE_BASE + c.depth) ELSE MATE_BASE + c.depth

\* C2 witness: one search that met a mated White and a mated Black above the horizon
C2_Witness ==
    /\ \E c \in MateCalls : c.board.to_move = White
    /\ \E c \in MateCalls : c.board.to_move = Black

\* C3 as stated: a call on a stalemate returns no successor and the score 0,
\* whatever the remaining depth.
C3_StalemateZeroAtEveryDepth ==
    \A c \in Calls : IsStalemate(c.board) => c.none /\ c.score = 0

\* C3 as amended: a call on a stalemate with remaining depth 1 or more returns
\* no successor and the score 0, whatever the window and the material; at
\* remaining depth 0 it returns the static evaluation.
C3_StalemateZeroAboveHorizon ==
    \A c \in Calls :
        IsStalemate(c.board) =>
            /\ c.none
            /\ c.score = IF c.depth = 0 THEN get_evaluation(c.board) ELSE 0

\* C3 witness: a stalemate with unequal material met above the horizon inside a window
\* narrower than the widest
C3_Witness ==
    \E c \in Calls :
        /\ IsStalemate(c.board)
        /\ c.depth >= 1
        /\ piece_value_differential(c.board) # 0
        /\ (c.alpha > I32_MIN \/ c.beta < I32_MAX)

\* C4: when two successors of the root both lead to a forced mate for the side
\* to move at the root, both within the search depth, the search never returns
\* the one with the slower mate: the successor returned mates at least as fast
\* as the faster of the two.
C4_FasterMatePreferred ==
    (Searched /\ depth >= 1) =>
        \A A, B \in Range(generate_moves(Root)) :
            LET kA == MateIn(A, Root.to_move, depth - 1)
                kB == MateIn(B, Root.to_move, depth - 1)
            IN (kA < kB /\ kB <= depth - 1) =>
                  /\ last.res.best_move # None
                  /\ last.res.best_move # Some(B)
                  /\ MateIn(Unwrap(last.res.best_move), Root.to_move, depth - 1) <= kA

\* The successors of b in the order in which alpha_beta_search searches them.
SearchOrder(b) ==
    IF b.to_move = White THEN SortDescending(generate_moves(b))
    ELSE SortAscending(generate_moves(b))

\* C4 witness: Black is to move at the root, the successor with the slower mate is searched
\* before the one with the faster mate, and both mates are found above the
\* horizon
C4_Witness ==
    /\ Searched
    /\ depth >= 1
    /\ Root.to_move = Black
    /\ LET moves == SearchOrder(Root)
       IN \E i, j \in DOMAIN moves :
            /\ i < j
            /\ MateIn(moves[j], Root.to_move, depth - 1)
                   < MateIn(moves[i], Root.to_move, depth - 1)
            /\ MateIn(moves[i], Root.to_move, depth - 1) <= depth - 2

\* C5 as stated: the current Position's clock never exceeds max_moves.
C5_ClockNeverExceedsCap ==
    board.full_move_clock <= max_moves

\* C5 as amended: the clock never exceeds the larger of max_moves and the
\* clock of the starting Position; a search is started only while the clock is
\* below the cap and never after a search that returned no successor.
C5_ClockBoundedAndSearchGuarded ==
    /\ [](board.full_move_clock <= Max(max_moves, start.full_move_clock))
    /\ [][last' # last =>
            /\ board.full_move_clock < max_moves
            /\ ~(Searched /\ last.res.best_move = None)]_vars

\* C5 witness: the driver played from below the cap up to the cap and returned
C5_Witness ==
    /\ pc = "done"
    /\ Searched
    /\ last.res.best_move # None
    /\ start.full_move_clock < max_moves
    /\ board.full_move_clock = max_moves

\* C6 as stated: each Position adopted has a larger clock than the one before.
C6_ClockStrictlyIncreasing ==
    (Searched /\ last.res.best_move # None) =>
        board.full_move_clock > Root.full_move_clock

\* C6 as amended: the clock of the Positions adopted never decreases: it stays
\* after a ply of White and grows by one after a ply of Black; and it never
\* exceeds the larger of the cap and the starting clock.
C6_ClockNonDecreasing ==
    /\ (Searched /\ last.res.best_move # None) =>
          board.full_move_clock =
              IF Root.to_move = Black THEN Root.full_move_clock + 1
              ELSE Root.full_move_clock
    /\ board.full_move_clock >= start.full_move_clock
    /\ board.full_move_clock <= Max(max_moves, start.full_move_clock)

\* C6 witness: a ply of White was adopted and the clock stayed, after a ply of Black on
\* which it grew
C6_Witness ==
    /\ Searched
    /\ last.res.best_move # None
    /\ Root.to_move = White
    /\ board.full_move_clock = Root.full_move_clock
    /\ board.full_move_clock > start.full_move_clock

\* C7 as stated: whenever the driver stops because the search returned no
\* successor, the current Position has no legal successor, for every depth.
C7_StopsOnlyAtGameEnd ==
    (pc = "done" /\ Searched /\ last.res.best_move = None) =>
        generate_moves(board) = <<>>

\* C7 as amended: for every depth of 1 or more, a search of the driver on a
\* Position with a legal successor returns a successor, so the driver stops on
\* no successor only at a checkmate or a stalemate.
C7_StopsOnlyAtGameEndAboveHorizon ==
    (Searched /\ depth >= 1) =>
        /\ generate_moves(Root) # <<>> => last.res.best_move # None
        /\ (pc = "done" /\ last.res.best_move = None) =>
              generate_moves(board) = <<>>

\* C7 witness: the driver adopted a successor and then stopped below the cap on a search
\* of depth 1 or more that returned none
C7_Witness ==
    /\ pc = "done"
    /\ Searched
    /\ depth >= 1
    /\ last.res.best_move = None
    /\ board # start
    /\ board.full_move_clock < max_moves

\* C8 as stated: of two checkmates of the same side found in one search, the
\* one nearer to the root gets the score of smaller magnitude, and both
\* magnitudes are at least MATE_BASE.
C8_ShallowerMateSmallerMagnitude ==
    \A m1, m2 \in MateCalls :
        (m1.board.to_move = m2.board.to_move /\ m1.depth > m2.depth) =>
            /\ Abs(m1.score) < Abs(m2.score)
            /\ Abs(m1.score) >= MATE_BASE
            /\ Abs(m2.score) >= MATE_BASE

\* C8 as amended: of two checkmates of the same side found in one search, the
\* one nearer to the root (more depth remaining) gets the score of larger
\* magnitude, and both magnitudes are at least MATE_BASE.
C8_ShallowerMateLargerMagnitude ==
    \A m1, m2 \in MateCalls :
        (m1.board.to_move = m2.board.to_move /\ m1.depth > m2.depth) =>
            /\ Abs(m1.score) > Abs(m2.score)
            /\ Abs(m1.score) >= MATE_BASE
            /\ Abs(m2.score) >= MATE_BASE

\* C8 witness: one search found two checkmates of the same side at different plies
C8_Witness ==
    \E m1, m2 \in MateCalls :
        m1.board.to_move = m2.board.to_move /\ m1.depth > m2.depth

\* The Position with every piece's colour swapped, the board mirrored
\* vertically, the material totals exchanged and the same clock.
Mirror(b) ==
    [id |-> b.id,
     board |-> [s \in {<<BOARD_START + BOARD_END - 1 - t[1], t[2]>> : t \in DOMAIN b.board} |->
                  LET piece == b.board[<<BOARD_START + BOARD_END - 1 - s[1], s[2]>>]
                  IN [kind |-> piece.kind, color |-> Opponent(piece.color)]],
     to_move |-> Opponent(b.to_move),
     full_move_clock |-> b.full_move_clock,
     white_total_piece_value |-> b.black_total_piece_value,
     black_total_piece_value |-> b.white_total_piece_value]

\* C9: get_evaluation of the mirrored, colour-swapped Position is the negation
\* of get_evaluation of the Position; every piece and its mirror image read the
\* same table cell, and the table row read is within 0 .. 7.
C9_EvaluationAntisymmetric ==
    pc = "evaluated" =>
        /\ get_evaluation(Mirror(board)) = -evaluation
        /\ \A s \in DOMAIN board.board :
              LET color == board.board[s].color
                  m == <<BOARD_START + BOARD_END - 1 - s[1], s[2]>>
              IN /\ TableRow(s[1], color) \in 0 .. 7
                 /\ TableRow(m[1], Opponent(color)) = TableRow(s[1], color)
                 /\ get_pos_evaluation(m[1], m[2], Mirror(board), Opponent(color))
                       = get_pos_evaluation(s[1], s[2], board, color)

\* C9 witness: a Position with a black pawn off the middle ranks was evaluated to a
\* non-zero score
C9_Witness ==
    /\ pc = "evaluated"
    /\ evaluation # 0
    /\ \E s \in DOMAIN board.board :
          /\ board.board[s] = [kind |-> "Pawn", color |-> Black]
          /\ s[1] = BOARD_START + 1

\* C10: in every call of alpha_beta_search of a search of the driver, the
\* maximizing_player equals the side to move of the Position passed in.
C10_MaximizerIsSideToMove ==
    \A c \in Calls : c.maximizing_player = c.board.to_move

\* C10 witness: a search of the driver that called itself at least two plies deep, for
\* White and for Black
C10_Witness ==
    /\ Searched
    /\ \E c \in Calls : c.depth + 2 <= depth /\ c.board.to_move = White
    /\ \E c \in Calls : c.depth + 2 <= depth /\ c.board.to_move = Black

====
